---- MODULE Spec2Model ----
(***************************************************************************)
(* A model of the healthion ingestion pipeline:                            *)
(*   - ValueCoercer       _safe_decimal (xml_service.py, process_upload_   *)
(*                        task.py)                                         *)
(*   - ChunkClassifier    _detect_dataframe_type (xml_service.py) and the  *)
(*                        inline if/elif chain of _import_xml_data         *)
(*   - IngestionOrchestrator  process_uploaded_file (process_upload_task)  *)
(*                        and process_uploaded_xml_file (process_uploaded_ *)
(*                        task), run by concurrent workers                 *)
(*   - QueueConsumer      poll_sqs_messages (tasks.py), and what calls it: *)
(*                        poll_sqs_task (tasks.py), started by each        *)
(*                        presigned-upload request, and the poll endpoint  *)
(*                        (xml_import.py)                                  *)
(***************************************************************************)
EXTENDS Integers, Sequences, FiniteSets, TLC

VARIABLES
    \* ---- ValueCoercer harness
    cValue,      \* the scalar handed to _safe_decimal
    cImpl,       \* which _safe_decimal: "service" (xml_service.py) or "task"
    cResult,     \* what the call produced; NotCalled before the call
    \* ---- ChunkClassifier harness
    kColumns,    \* the column-name set of the chunk
    kEmpty,      \* whether the chunk has no row
    kResult,     \* [service, task]: the two classifications; NotCalled before
    \* ---- IngestionOrchestrator
    objects,     \* the bucket: object key -> uploaded file
    run,         \* per worker task: its locals, position and result
    session,     \* per worker task: entities added to its open transaction
    store,       \* the relational store: committed entities, in insertion order
    fs,          \* the temporary directory: path -> file (or absent)
    uploaded,    \* object storage, processed side: output key -> dump uploaded
    \* ---- QueueConsumer
    queue,       \* the message source: the messages not deleted yet
    poll,        \* poll_sqs_messages: its locals, position and outcome
    dispatched,  \* the tasks enqueued by .delay(), in order
    pollers,     \* per caller of poll_sqs_messages: a poll_sqs_task or an
                 \* endpoint request, its position and its clock
    \* ---- the columnar-export task the consumer dispatches (tasks.py)
    columnar,    \* per worker task: its locals, position and outcome
    dbfiles      \* the working directory: names of the database files present

coerceVars == <<cValue, cImpl, cResult>>
classifyVars == <<kColumns, kEmpty, kResult>>
runVars == <<objects, run, session, store, fs, uploaded>>
\* what the orchestrator never touches
harnessVars ==
    <<cValue, cImpl, cResult, kColumns, kEmpty, kResult, pollers, columnar, dbfiles>>
columnarVars == <<columnar, dbfiles>>
pollVars == <<queue, poll, dispatched>>
vars == <<cValue, cImpl, cResult, kColumns, kEmpty, kResult,
          objects, run, session, store, fs, uploaded, queue, poll, dispatched,
          pollers, columnar, dbfiles>>

NotCalled == [tag |-> "not_called"]

\* ------------------------------------------------------------------ bounds

\* Longest string form of a scalar handed to _safe_decimal.
MaxStrLen == 3

\* ------------------------------------------------------------ ValueCoercer

\* The characters the strings of the model are made of: two digits, the
\* point, the sign, the exponent marker and a letter that is no part of any
\* decimal literal.
Digits == {"0", "1"}
Chars == Digits \cup {".", "-", "e", "x"}

RECURSIVE StringsUpTo(_)
StringsUpTo(n) ==
    IF n = 0 THEN {<<>>}
    ELSE LET shorter == StringsUpTo(n - 1)
         IN  shorter \cup {Append(s, c) : s \in {t \in shorter : Len(t) = n - 1}, c \in Chars}

\* Position of the first occurrence of c in s, 0 when there is none.
IndexOf(s, c) ==
    IF \E i \in 1..Len(s) : s[i] = c
    THEN CHOOSE i \in 1..Len(s) : s[i] = c /\ \A j \in 1..(i - 1) : s[j] # c
    ELSE 0

AllDigits(s) == \A i \in 1..Len(s) : s[i] \in Digits

\* digits [ "." [digits] ] | "." digits
IsMantissa(s) ==
    LET p == IndexOf(s, ".")
    IN  IF p = 0
        THEN Len(s) > 0 /\ AllDigits(s)
        ELSE /\ AllDigits(SubSeq(s, 1, p - 1))
             /\ AllDigits(SubSeq(s, p + 1, Len(s)))
             /\ Len(s) > 1

\* [sign] digits
IsExponent(s) ==
    LET d == IF Len(s) > 0 /\ s[1] = "-" THEN Tail(s) ELSE s
    IN  Len(d) > 0 /\ AllDigits(d)

\* The numeric-string grammar of decimal.Decimal(str): [sign] mantissa
\* [ "e" exponent ].
IsDecimalLiteral(s) ==
    LET u == IF Len(s) > 0 /\ s[1] = "-" THEN Tail(s) ELSE s
        p == IndexOf(u, "e")
    IN  IF p = 0
        THEN IsMantissa(u)
        ELSE IsMantissa(SubSeq(u, 1, p - 1)) /\ IsExponent(SubSeq(u, p + 1, Len(u)))

\* Python's exception hierarchy, as far as _safe_decimal meets it:
\* decimal.InvalidOperation is an ArithmeticError, not a ValueError.
ExcBase(c) ==
    CASE c = "InvalidOperation" -> "ArithmeticError"
      [] c = "ArithmeticError" -> "Exception"
      [] c = "ValueError" -> "Exception"
      [] c = "TypeError" -> "Exception"
      [] OTHER -> "BaseException"

RECURSIVE IsSubclass(_, _)
IsSubclass(c, classes) ==
    \/ c \in classes
    \/ c # "BaseException" /\ IsSubclass(ExcBase(c), classes)

\* Decimal(str(value)): the decimal value, or the exception it raises.
DecimalOf(s) ==
    IF IsDecimalLiteral(s)
    THEN [tag |-> "decimal", literal |-> s]
    ELSE [tag |-> "raise", exc |-> "InvalidOperation"]

\* A scalar: None, a string, or a float (with its str() form).
NoneValue == [type |-> "NoneType", str |-> <<"N", "o", "n", "e">>, zero |-> FALSE]
StrValue(s) == [type |-> "str", str |-> s, zero |-> FALSE]
FloatValue(s, z) == [type |-> "float", str |-> s, zero |-> z]

Floats ==
    { FloatValue(<<"0", ".", "0">>, TRUE),
      FloatValue(<<"-", "0", ".", "0">>, TRUE),
      FloatValue(<<"1", ".", "0">>, FALSE),
      FloatValue(<<"1", ".", "1">>, FALSE) }

Scalars == {NoneValue} \cup {StrValue(s) : s \in StringsUpTo(MaxStrLen)} \cup Floats

IsZeroFloat(value) == value.type = "float" /\ value.zero

\* try: return Decimal(str(value)) / except (ValueError, TypeError): return None
TryDecimal(value) ==
    LET d == DecimalOf(value.str)
    IN  IF d.tag = "raise" /\ IsSubclass(d.exc, {"ValueError", "TypeError"})
        THEN [tag |-> "none"]
        ELSE d

\* XMLImportService._safe_decimal
_safe_decimal(value) ==
    IF value.type = "NoneType" THEN [tag |-> "none"]
    ELSE IF IsZeroFloat(value) THEN [tag |-> "decimal", literal |-> <<"0">>]
    ELSE TryDecimal(value)

\* process_upload_task._safe_decimal
_safe_decimal_task(value) ==
    IF value.type = "NoneType" THEN [tag |-> "none"]
    ELSE TryDecimal(value)

CoerceIdle ==
    /\ cValue = NoneValue
    /\ cImpl = "service"
    /\ cResult = NotCalled

CoerceInit ==
    /\ cValue \in Scalars
    /\ cImpl \in {"service", "task"}
    /\ cResult = NotCalled

CoerceCall ==
    /\ cResult = NotCalled
    /\ cResult' = IF cImpl = "service" THEN _safe_decimal(cValue)
                  ELSE _safe_decimal_task(cValue)
    /\ UNCHANGED <<cValue, cImpl>>

\* --------------------------------------------------------- ChunkClassifier

ColumnNames ==
    {"type", "value", "duration", "durationUnit", "sum", "average", "maximum", "minimum"}

\* XMLImportService._detect_dataframe_type
_detect_dataframe_type(columns, empty) ==
    IF empty THEN "unknown"
    ELSE IF {"sum", "average", "maximum", "minimum"} \subseteq columns THEN "statistic"
    ELSE IF "duration" \in columns /\ "durationUnit" \in columns THEN "workout"
    ELSE IF "value" \in columns THEN "record"
    ELSE "unknown"

\* The if/elif chain of _import_xml_data.
ImportXmlDataType(columns) ==
    IF "value" \in columns THEN "record"
    ELSE IF "duration" \in columns THEN "workout"
    ELSE IF "sum" \in columns THEN "statistic"
    ELSE "unknown"

ClassifyIdle ==
    /\ kColumns = {}
    /\ kEmpty = TRUE
    /\ kResult = NotCalled

ClassifyInit ==
    /\ kColumns \in SUBSET ColumnNames
    /\ kEmpty \in BOOLEAN
    /\ kResult = NotCalled

\* One non-empty chunk through each import path's classification; an empty
\* chunk is skipped by both loops before it is classified.
ClassifyCall ==
    /\ kResult = NotCalled
    /\ kResult' = IF kEmpty THEN [tag |-> "skipped"]
                  ELSE [tag |-> "classified",
                        service |-> _detect_dataframe_type(kColumns, kEmpty),
                        task |-> ImportXmlDataType(kColumns)]
    /\ UNCHANGED <<kColumns, kEmpty>>

\* ---------------------------------------------------- IngestionOrchestrator

\* The two worker tasks of the model.
Runs == {1, 2}

\* An absent str / path / key (Python None): the empty sequence.
None == <<>>

\* ---- object keys, paths

\* An object key is the sequence of its "/"-separated segments; a segment is a
\* sequence of tokens, the extension being its own token.
KeyA1 == << <<"u1">>, <<"raw">>, <<"a", ".xml">> >>
KeyA2 == << <<"u2">>, <<"raw">>, <<"a", ".xml">> >>
KeyB1 == << <<"u1">>, <<"raw">>, <<"b", ".xml">> >>
\* a key that does not follow {user_id}/raw/{filename}
KeyBare == << <<"a", ".xml">> >>
\* a key whose filename does not end in the lower-case extension
KeyUpper == << <<"u1">>, <<"raw">>, <<"a", ".XML">> >>
Keys == {KeyA1, KeyA2, KeyB1, KeyBare, KeyUpper}

\* The user_id argument of a task: not passed, a valid identifier that is not
\* the first segment of the key, and a string that is no identifier.
UserArgs == {<<>>, <<"u2">>, <<"zz">>}

\* uuid.UUID(user_id) accepts these segments and raises ValueError on others.
ValidUUID(user_id) == user_id \in {<<"u1">>, <<"u2">>}

\* object_key.split('/')[0]
FirstSegment(object_key) == object_key[1]

\* object_key.split('/')[-1]
LastSegment(object_key) == object_key[Len(object_key)]

\* filename.replace('.xml', '.sql')
ReplaceXmlSql(filename) ==
    [i \in 1..Len(filename) |-> IF filename[i] = ".xml" THEN ".sql" ELSE filename[i]]

\* os.path.join(temp_dir, f"temp_import_{object_key.split('/')[-1]}")
TempXmlFile(object_key) == <<"temp_import_">> \o LastSegment(object_key)

\* os.path.join(temp_dir, f"export_{filename.replace('.xml', '.sql')}")
DumpFile(object_key) == <<"export_">> \o ReplaceXmlSql(LastSegment(object_key))

\* f"{user_id}/processed/{filename.replace('.xml', '.sql')}"
OutputKey(user_id, object_key) ==
    <<user_id, <<"processed">>, ReplaceXmlSql(LastSegment(object_key))>>

\* A resolution that ignores the user_id passed to the task.
ResolveUserId_FromKey(user_arg, object_key) == FirstSegment(object_key)

\* if not user_id: user_id = object_key.split('/')[0]
ResolveUserId(user_arg, object_key) ==
    IF user_arg = None THEN FirstSegment(object_key) ELSE user_arg

Paths == {TempXmlFile(k) : k \in Keys} \cup {DumpFile(k) : k \in Keys}
OutputKeys ==
    {OutputKey(u, k) : u \in {FirstSegment(j) : j \in Keys} \cup (UserArgs \ {None}), k \in Keys}

\* ---- files, chunks, rows

\* A row: whether its date fields parse, and the raw value of its numeric
\* attribute.
GoodNum == StrValue(<<"1">>)
BadNum == StrValue(<<"x">>)
RowOk == [dates |-> "ok", num |-> GoodNum]
RowBadDate == [dates |-> "bad", num |-> GoodNum]
RowBadNum == [dates |-> "ok", num |-> BadNum]

ColsRecord == {"type", "value"}
ColsWorkout == {"type", "duration", "durationUnit"}
ColsStatistic == {"type", "sum", "average", "maximum", "minimum"}
ColsStatisticValue == ColsStatistic \cup {"value"}
ColsUnknown == {"type"}

EmptyFile == [chunks |-> <<>>, malformed |-> FALSE]

\* ---- the temporary directory

Absent == [present |-> FALSE, writer |-> 0, file |-> EmptyFile]
FileBy(r, f) == [present |-> TRUE, writer |-> r, file |-> f]

\* ---- results

NoResult == [status |-> "none", input_key |-> None, output_key |-> None,
             user_id |-> None, error |-> ""]

\* the dict of lines 68-75 (process_upload_task.py), 56-63 (process_uploaded_task.py)
SuccessResult(object_key, user_id) ==
    [status |-> "success", input_key |-> object_key,
     output_key |-> OutputKey(user_id, object_key), user_id |-> user_id, error |-> ""]

\* the dict of lines 80-86 (process_upload_task.py), 68-74 (process_uploaded_task.py)
FailedResult(object_key, user_id, e) ==
    [status |-> "failed", input_key |-> object_key,
     output_key |-> None, user_id |-> user_id, error |-> e]

NoStats == [records |-> 0, workouts |-> 0, statistics |-> 0, chunks_processed |-> 0]

\* A worker task before it starts. fn: "process_uploaded_file" or
\* "process_uploaded_xml_file"; binding: how the call of line 41 of
\* process_uploaded_task.py resolves.
IdleRun(fn, binding, key, user_arg) ==
    [pc |-> "start", fn |-> fn, binding |-> binding,
     object_key |-> key, user_id |-> user_arg, user_arg |-> user_arg, retry_of |-> 0,
     temp_xml_file |-> None, dump_file |-> None,
     parsed |-> EmptyFile, parsedFrom |-> 0, next |-> 1,
     stats |-> NoStats, response |-> "",
     result |-> NoResult, outcome |-> "running",
     done |-> {}, failed |-> {}, committed |-> <<>>, classified |-> <<>>]

OffRun == [IdleRun("process_uploaded_file", "none", KeyA1, None) EXCEPT !.pc = "off"]

\* ---- persistence of one chunk

PUF == "process_uploaded_file"
PUXF == "process_uploaded_xml_file"

\* How each orchestrator classifies a non-empty chunk: import_xml calls
\* _detect_dataframe_type, _import_xml_data tests the columns inline.
ChunkKind(fn, chunk) ==
    IF fn = PUXF THEN _detect_dataframe_type(chunk.columns, Len(chunk.rows) = 0)
    ELSE ImportXmlDataType(chunk.columns)

\* The numeric fields each _process_*_df hands to _safe_decimal.
NumericColumns(kind) ==
    CASE kind = "record" -> {"value"}
      [] kind = "workout" -> {"duration"}
      [] kind = "statistic" -> {"sum", "average", "maximum", "minimum"}
      [] OTHER -> {}

SafeDecimalOf(fn, value) ==
    IF fn = PUXF THEN _safe_decimal(value) ELSE _safe_decimal_task(value)

\* The numeric value of a row of this kind: row.get(column) is None when the
\* chunk has no such column.
RowValue(fn, kind, columns, row) ==
    IF NumericColumns(kind) \cap columns = {} THEN SafeDecimalOf(fn, NoneValue)
    ELSE SafeDecimalOf(fn, row.num)

\* Whether the try block of a _process_*_df loop raises on this row: UUID(user_id)
\* (inside the loop in xml_service.py only), the date fields, _safe_decimal.
RowRaises(fn, kind, columns, row, user_id) ==
    \/ fn = PUXF /\ ~ValidUUID(user_id)
    \/ row.dates = "bad"
    \/ RowValue(fn, kind, columns, row).tag = "raise"

\* XMLImportService._process_records_df returns 0 at once for a chunk without
\* a type column.
SkipsRows(fn, kind, columns) == fn = PUXF /\ kind = "record" /\ "type" \notin columns

RaisingRows(fn, kind, chunk, user_id) ==
    IF SkipsRows(fn, kind, chunk.columns) \/ kind = "unknown" THEN {}
    ELSE {i \in 1..Len(chunk.rows) : RowRaises(fn, kind, chunk.columns, chunk.rows[i], user_id)}

Minimum(S) == CHOOSE x \in S : \A y \in S : x <= y

\* A row loop that goes on to the end of the chunk after a row raised.
RowsWritten_GoesOn(fn, kind, chunk, user_id) ==
    IF SkipsRows(fn, kind, chunk.columns) \/ kind = "unknown" THEN 0
    ELSE Len(chunk.rows)

\* Rows of the chunk created before the loop ends or a row raises.
RowsWritten(fn, kind, chunk, user_id) ==
    IF SkipsRows(fn, kind, chunk.columns) \/ kind = "unknown" THEN 0
    ELSE LET bad == RaisingRows(fn, kind, chunk, user_id)
         IN  IF bad = {} THEN Len(chunk.rows) ELSE Minimum(bad) - 1

\* A loop that writes the rows of a chunk last row first.
Entities_Reversed(r, fn, kind, user_id, c, chunk, n) ==
    [i \in 1..n |->
        [run |-> r, kind |-> kind, user_id |-> user_id, chunk |-> c, row |-> n + 1 - i,
         value |-> RowValue(fn, kind, chunk.columns, chunk.rows[n + 1 - i])]]

\* The entities service.create adds to the session for rows 1..n of chunk c.
Entities(r, fn, kind, user_id, c, chunk, n) ==
    [i \in 1..n |->
        [run |-> r, kind |-> kind, user_id |-> user_id, chunk |-> c, row |-> i,
         value |-> RowValue(fn, kind, chunk.columns, chunk.rows[i])]]

\* A counter of chunks that leaves out the chunks of unknown kind.
AddStats_SkipUnknown(stats, kind, n) ==
    [stats EXCEPT !.records = @ + (IF kind = "record" THEN n ELSE 0),
                  !.workouts = @ + (IF kind = "workout" THEN n ELSE 0),
                  !.statistics = @ + (IF kind = "statistic" THEN n ELSE 0),
                  !.chunks_processed = @ + (IF kind = "unknown" THEN 0 ELSE 1)]

\* A routing that counts the rows of a statistic chunk as workouts.
AddStats_Misrouted(stats, kind, n) ==
    [stats EXCEPT !.records = @ + (IF kind = "record" THEN n ELSE 0),
                  !.workouts = @ + (IF kind \in {"workout", "statistic"} THEN n ELSE 0),
                  !.chunks_processed = @ + 1]

\* stats[...] += created_count; stats["chunks_processed"] += 1
AddStats(stats, kind, n) ==
    [stats EXCEPT !.records = @ + (IF kind = "record" THEN n ELSE 0),
                  !.workouts = @ + (IF kind = "workout" THEN n ELSE 0),
                  !.statistics = @ + (IF kind = "statistic" THEN n ELSE 0),
                  !.chunks_processed = @ + 1]

\* ---- the steps of one orchestration run

\* A handler that records a failed dump and goes on to the upload.
Failed_DumpIgnored(rec, step, e) ==
    IF step = "dump" THEN [rec EXCEPT !.failed = @ \cup {step}, !.pc = "upload"]
    ELSE [rec EXCEPT !.result = FailedResult(rec.object_key, rec.user_id, e),
                     !.failed = @ \cup {step},
                     !.pc = "cleanup_xml"]

\* The outer except clause: build the failed result, then the finally block.
Failed(rec, step, e) ==
    [rec EXCEPT !.result = FailedResult(rec.object_key, rec.user_id, e),
                !.failed = @ \cup {step},
                !.pc = "cleanup_xml"]

\* except Exception as e: db.rollback(); raise e
Rollback(pending) == <<>>

\* Lines 37-46: resolve user_id, name the temporary file, download the object.
Download(r) ==
    /\ run[r].pc = "start"
    /\ LET key == run[r].object_key
           rec == [run[r] EXCEPT !.user_id = ResolveUserId(@, key),
                                 !.temp_xml_file = TempXmlFile(key)]
       IN  \/ /\ fs' = [fs EXCEPT ![rec.temp_xml_file] = FileBy(r, objects[key])]
              /\ run' = [run EXCEPT ![r] =
                            [rec EXCEPT !.pc = "import", !.done = @ \cup {"download"}]]
           \/ /\ run' = [run EXCEPT ![r] = Failed(rec, "download", "download failed")]
              /\ UNCHANGED fs
    /\ UNCHANGED <<harnessVars, pollVars>>
    /\ UNCHANGED <<objects, session, store, uploaded>>

\* The parser opens the file that is at xml_path when iteration starts.
ParseOpen(rec) ==
    LET f == fs[rec.temp_xml_file]
    IN  [rec EXCEPT !.parsed = f.file, !.parsedFrom = f.writer, !.next = 1, !.pc = "chunks"]

\* import_xml's except clause: log, return UploadDataResponse("XML import
\* failed: ..."); the caller goes on to db.commit().
Swallowed(rec, step) ==
    [rec EXCEPT !.response = "XML import failed", !.failed = @ \cup {step}, !.pc = "commit"]

\* SessionLocal(), then _import_xml_data up to its loop (process_uploaded_file)
\* or the call of import_xml up to its loop (process_uploaded_xml_file).
BeginImport(r) ==
    /\ run[r].pc = "import"
    /\ LET rec == run[r]
           there == fs[rec.temp_xml_file].present
       IN  run' = [run EXCEPT ![r] =
             IF rec.fn = PUF
             THEN IF ~ValidUUID(rec.user_id) THEN Failed(rec, "user_id", "badly formed UUID")
                  ELSE IF ~there THEN Failed(rec, "parse", "no such file")
                  ELSE ParseOpen(rec)
             ELSE CASE rec.binding = "unbound" ->
                         Failed(rec, "import_call", "name xml_import_service is not defined")
                    [] rec.binding = "unawaited" ->
                         [rec EXCEPT !.response = "coroutine", !.pc = "commit"]
                    [] OTHER ->
                         IF ~there THEN Swallowed(rec, "parse") ELSE ParseOpen(rec)]
    /\ session' = [session EXCEPT ![r] = <<>>]
    /\ UNCHANGED <<harnessVars, pollVars>>
    /\ UNCHANGED <<objects, store, fs, uploaded>>

\* One iteration of the for loop over parse_xml(): the end of the stream, an
\* empty chunk, or a chunk classified and persisted row by row.
ImportChunk(r) ==
    /\ run[r].pc = "chunks"
    /\ LET rec == run[r]
           f == rec.parsed
           c == rec.next
       IN  IF c > Len(f.chunks)
           THEN IF f.malformed
                THEN IF rec.fn = PUF
                     THEN /\ run' = [run EXCEPT ![r] = Failed(rec, "parse", "malformed XML")]
                          /\ session' = [session EXCEPT ![r] = Rollback(@)]
                     ELSE /\ run' = [run EXCEPT ![r] = Swallowed(rec, "parse")]
                          /\ UNCHANGED session
                ELSE /\ run' = [run EXCEPT ![r] =
                                  [rec EXCEPT !.pc = "commit", !.done = @ \cup {"parse"},
                                              !.response = IF rec.fn = PUXF
                                                           THEN "XML import successful"
                                                           ELSE @]]
                     /\ UNCHANGED session
           ELSE LET chunk == f.chunks[c]
                    kind == ChunkKind(rec.fn, chunk)
                    n == RowsWritten(rec.fn, kind, chunk, rec.user_id)
                    raised == RaisingRows(rec.fn, kind, chunk, rec.user_id) # {}
                    added == session[r] \o Entities(r, rec.fn, kind, rec.user_id, c, chunk, n)
                    seen == [rec EXCEPT !.classified = Append(@, c)]
                IN  IF Len(chunk.rows) = 0
                    THEN /\ run' = [run EXCEPT ![r] = [rec EXCEPT !.next = c + 1]]
                         /\ UNCHANGED session
                    ELSE IF raised
                    THEN IF rec.fn = PUF
                         THEN /\ run' = [run EXCEPT ![r] =
                                           Failed(seen, "row", "Failed to process row")]
                              /\ session' = [session EXCEPT ![r] = Rollback(added)]
                         ELSE /\ run' = [run EXCEPT ![r] = Swallowed(seen, "row")]
                              /\ session' = [session EXCEPT ![r] = added]
                    ELSE /\ run' = [run EXCEPT ![r] =
                                      [seen EXCEPT !.next = c + 1,
                                                  !.stats = IF rec.fn = PUXF
                                                            THEN AddStats(@, kind, n)
                                                            ELSE @]]
                         /\ session' = [session EXCEPT ![r] = added]
    /\ UNCHANGED <<harnessVars, pollVars>>
    /\ UNCHANGED <<objects, store, fs, uploaded>>

\* A commit that makes nothing visible.
CommitToStore_Lost(st, pending) == st

\* db.commit() on success: the session's entities are appended to the store.
CommitToStore(st, pending) == st \o pending

\* db.commit(): the session's entities become visible in the store, or the
\* commit fails and the except clause rolls back.
Commit(r) ==
    /\ run[r].pc = "commit"
    /\ \/ /\ store' = CommitToStore(store, session[r])
          /\ run' = [run EXCEPT ![r] = [@ EXCEPT !.pc = "dump", !.done = @ \cup {"commit"},
                                                  !.committed = session[r]]]
       \/ /\ run' = [run EXCEPT ![r] = Failed(@, "commit", "commit failed")]
          /\ UNCHANGED store
    /\ session' = [session EXCEPT ![r] = <<>>]
    /\ UNCHANGED <<harnessVars, pollVars>>
    /\ UNCHANGED <<objects, fs, uploaded>>

\* _create_postgres_dump(dump_file): pg_dump writes the file, or exits nonzero
\* (having created the file or not).
Dump(r) ==
    /\ run[r].pc = "dump"
    /\ LET rec == [run[r] EXCEPT !.dump_file = DumpFile(run[r].object_key)]
       IN  \/ /\ fs' = [fs EXCEPT ![rec.dump_file] = FileBy(r, EmptyFile)]
              /\ run' = [run EXCEPT ![r] =
                            [rec EXCEPT !.pc = "upload", !.done = @ \cup {"dump"}]]
           \/ /\ \/ fs' = [fs EXCEPT ![rec.dump_file] = FileBy(r, EmptyFile)]
                 \/ UNCHANGED fs
              /\ run' = [run EXCEPT ![r] = Failed(rec, "dump", "pg_dump failed")]
    /\ UNCHANGED <<harnessVars, pollVars>>
    /\ UNCHANGED <<objects, session, store, uploaded>>

\* s3_client.upload_file(dump_file, bucket_name, output_key), then the success
\* result; a missing dump file or a storage error raises.
Upload(r) ==
    /\ run[r].pc = "upload"
    /\ LET rec == run[r]
           f == fs[rec.dump_file]
           out == OutputKey(rec.user_id, rec.object_key)
       IN  \/ /\ f.present
              /\ uploaded' = [uploaded EXCEPT ![out] = f]
              /\ run' = [run EXCEPT ![r] =
                            [rec EXCEPT !.pc = "cleanup_xml", !.done = @ \cup {"upload"},
                                        !.result = SuccessResult(rec.object_key, rec.user_id)]]
           \/ /\ run' = [run EXCEPT ![r] = Failed(rec, "upload", "upload failed")]
              /\ UNCHANGED uploaded
    /\ UNCHANGED <<harnessVars, pollVars>>
    /\ UNCHANGED <<objects, session, store, fs>>

\* finally: if temp_xml_file and os.path.exists(temp_xml_file)
CheckXml(r) ==
    /\ run[r].pc = "cleanup_xml"
    /\ run' = [run EXCEPT ![r].pc =
                  IF run[r].temp_xml_file # None /\ fs[run[r].temp_xml_file].present
                  THEN "remove_xml" ELSE "cleanup_dump"]
    /\ UNCHANGED <<harnessVars, pollVars>>
    /\ UNCHANGED <<objects, session, store, fs, uploaded>>

\* os.remove(path): removes the file, or raises FileNotFoundError out of the
\* finally block when it is no longer there.
Remove(r, path, then) ==
    IF fs[path].present
    THEN /\ fs' = [fs EXCEPT ![path] = Absent]
         /\ run' = [run EXCEPT ![r] = [@ EXCEPT !.pc = then,
                        !.outcome = IF then = "done" THEN "returned" ELSE @]]
    ELSE /\ run' = [run EXCEPT ![r] = [@ EXCEPT !.pc = "done", !.outcome = "raised"]]
         /\ UNCHANGED fs

RemoveXml(r) ==
    /\ run[r].pc = "remove_xml"
    /\ Remove(r, run[r].temp_xml_file, "cleanup_dump")
    /\ UNCHANGED <<harnessVars, pollVars>>
    /\ UNCHANGED <<objects, session, store, uploaded>>

\* if dump_file and os.path.exists(dump_file)
CheckDump(r) ==
    /\ run[r].pc = "cleanup_dump"
    /\ run' = [run EXCEPT ![r] =
                  IF run[r].dump_file # None /\ fs[run[r].dump_file].present
                  THEN [@ EXCEPT !.pc = "remove_dump"]
                  ELSE [@ EXCEPT !.pc = "done", !.outcome = "returned"]]
    /\ UNCHANGED <<harnessVars, pollVars>>
    /\ UNCHANGED <<objects, session, store, fs, uploaded>>

RemoveDump(r) ==
    /\ run[r].pc = "remove_dump"
    /\ Remove(r, run[r].dump_file, "done")
    /\ UNCHANGED <<harnessVars, pollVars>>
    /\ UNCHANGED <<objects, session, store, uploaded>>

\* The task is run again with the arguments of a run that committed its
\* import and then failed at the dump or at the upload.
Retry(r, q) ==
    /\ r # q
    /\ run[r].pc = "done" /\ run[r].outcome = "returned"
    /\ "commit" \in run[r].done /\ run[r].failed \cap {"dump", "upload"} # {}
    /\ run[q].pc = "off"
    /\ run' = [run EXCEPT ![q] =
                  [IdleRun(run[r].fn, run[r].binding, run[r].object_key, run[r].user_arg)
                      EXCEPT !.retry_of = r]]
    /\ UNCHANGED <<harnessVars, pollVars>>
    /\ UNCHANGED <<objects, session, store, fs, uploaded>>

RunStep(r) ==
    \/ Download(r)
    \/ BeginImport(r)
    \/ ImportChunk(r)
    \/ Commit(r)
    \/ Dump(r)
    \/ Upload(r)
    \/ CheckXml(r)
    \/ RemoveXml(r)
    \/ CheckDump(r)
    \/ RemoveDump(r)

\* ---- initial states

\* The orchestrator and the way it reaches import_xml. process_uploaded_task.py
\* calls xml_import_service.import_xml(...) without importing that name and
\* without awaiting the coroutine function; what the call does depends on how
\* the module is wired, so each wiring is a case: the name is unbound
\* (NameError), the call returns an un-awaited coroutine (the body never runs),
\* or the body runs to completion.
Variants ==
    { <<PUF, "none">>, <<PUXF, "unbound">>, <<PUXF, "unawaited">>, <<PUXF, "executed">> }

Chunk(columns, rows) == [columns |-> columns, rows |-> rows]

\* One record chunk of one good row.
GoodFile == [chunks |-> <<Chunk(ColsRecord, <<RowOk>>)>>, malformed |-> FALSE]

\* A good chunk, then a chunk whose second row does not construct.
BadRowFile ==
    [chunks |-> <<Chunk(ColsRecord, <<RowOk>>), Chunk(ColsRecord, <<RowOk, RowBadDate>>)>>,
     malformed |-> FALSE]

UploadedFiles == {GoodFile, BadRowFile}

RunIdle ==
    /\ objects = [k \in Keys |-> GoodFile]
    /\ run = [r \in Runs |-> OffRun]
    /\ session = [r \in Runs |-> <<>>]
    /\ store = <<>>
    /\ fs = [p \in Paths |-> Absent]
    /\ uploaded = [k \in OutputKeys |-> Absent]

\* Two worker tasks dispatched at once: for the same notification, for two
\* users' files of the same name, or for two files of different names.
RunInit ==
    /\ \E v1 \in Variants, v2 \in Variants, k2 \in {KeyA1, KeyA2, KeyB1},
          f1 \in UploadedFiles, f2 \in UploadedFiles :
          /\ k2 = KeyA1 => f2 = f1
          /\ objects = [k \in Keys |-> IF k = KeyA1 THEN f1
                                       ELSE IF k = k2 THEN f2 ELSE GoodFile]
          /\ run = [r \in Runs |->
                       IF r = 1 THEN IdleRun(v1[1], v1[2], KeyA1, None)
                       ELSE IdleRun(v2[1], v2[2], k2, None)]
    /\ session = [r \in Runs |-> <<>>]
    /\ store = <<>>
    /\ fs = [p \in Paths |-> Absent]
    /\ uploaded = [k \in OutputKeys |-> Absent]

\* Longest file, in chunks, of the single-run specification.
MaxChunks == 2

\* A row that constructs, and a row whose numeric attribute is no decimal.
Rows == {RowOk, RowBadNum}
ColumnSets == {ColsRecord, ColsWorkout, ColsStatisticValue, ColsUnknown}

RECURSIVE SeqsUpTo(_, _)
SeqsUpTo(S, n) ==
    IF n = 0 THEN {<<>>}
    ELSE LET shorter == SeqsUpTo(S, n - 1)
         IN  shorter \cup {Append(s, x) : s \in {t \in shorter : Len(t) = n - 1}, x \in S}

\* Chunks of one or two rows, and the empty chunk (which has no row to tell
\* its columns by).
RowSeqs == {<<a>> : a \in Rows} \cup {<<a, b>> : a \in Rows, b \in Rows}
Chunks ==
    {Chunk(ColsRecord, <<>>)} \cup {Chunk(cs, rs) : cs \in ColumnSets, rs \in RowSeqs}

Files == {[chunks |-> cs, malformed |-> m] : cs \in SeqsUpTo(Chunks, MaxChunks), m \in BOOLEAN}

\* One worker task alone, on any file within the bounds, under a key whose
\* first segment is a user id or is none. The wirings that never reach the
\* parser are started on one file only.
ImportInit ==
    /\ \E v \in Variants, k \in {KeyA1, KeyBare}, f \in Files :
          /\ v[2] \in {"unbound", "unawaited"} => f = GoodFile
          /\ objects = [j \in Keys |-> IF j = k THEN f ELSE GoodFile]
          /\ run = [r \in Runs |-> IF r = 1 THEN IdleRun(v[1], v[2], k, None) ELSE OffRun]
    /\ session = [r \in Runs |-> <<>>]
    /\ store = <<>>
    /\ fs = [p \in Paths |-> Absent]
    /\ uploaded = [k \in OutputKeys |-> Absent]

\* One worker task on a file, under any key and user_id argument; a second
\* task is started only as the retry of the first.
RetryInit ==
    /\ \E v \in Variants, k \in {KeyA1, KeyBare, KeyUpper}, u \in UserArgs,
          f \in UploadedFiles :
          /\ objects = [j \in Keys |-> IF j = k THEN f ELSE GoodFile]
          /\ run = [r \in Runs |-> IF r = 1 THEN IdleRun(v[1], v[2], k, u) ELSE OffRun]
    /\ session = [r \in Runs |-> <<>>]
    /\ store = <<>>
    /\ fs = [p \in Paths |-> Absent]
    /\ uploaded = [k \in OutputKeys |-> Absent]

\* ------------------------------------------------------------ QueueConsumer

\* MaxNumberOfMessages of the receive call.
MaxNumberOfMessages == 10

\* Most messages in the queue when the poll starts.
MaxQueue == 2

\* A storage-event entry of a notification, one of another source, and one
\* tagged aws:s3 that lacks the s3 member.
S3Entry(key) == [eventSource |-> "aws:s3", s3 |-> TRUE, bucket |-> "bucket", key |-> key]
OtherEntry == [eventSource |-> "aws:sns", s3 |-> FALSE, bucket |-> "", key |-> None]
BrokenEntry == [eventSource |-> "aws:s3", s3 |-> FALSE, bucket |-> "", key |-> None]

\* A message body: text that is no JSON, or a JSON object with or without
\* the Records member.
NotJson == [json |-> FALSE, hasRecords |-> FALSE, Records |-> <<>>]
NoRecords == [json |-> TRUE, hasRecords |-> FALSE, Records |-> <<>>]
WithRecords(es) == [json |-> TRUE, hasRecords |-> TRUE, Records |-> es]

Bodies ==
    { NotJson, NoRecords,
      WithRecords(<<S3Entry(KeyA1)>>),
      WithRecords(<<OtherEntry>>),
      WithRecords(<<S3Entry(KeyA1), S3Entry(KeyB1)>>),
      WithRecords(<<OtherEntry, S3Entry(KeyA2)>>),
      WithRecords(<<BrokenEntry>>) }

\* A message of the queue: its receipt handle and its body.
Messages == [ReceiptHandle : 1..MaxQueue, Body : Bodies]

\* The batches a receive may return: up to MaxNumberOfMessages messages of the
\* queue, each once, in any order.
Batches(q) ==
    {b \in SeqsUpTo(q, Cardinality(q)) :
        /\ Len(b) <= MaxNumberOfMessages
        /\ \A i \in 1..Len(b), j \in 1..Len(b) : i # j => b[i] # b[j]}

NoReturn == [messages_processed |-> 0, total_messages |-> 0, messages |-> <<>>]

\* poll_sqs_messages before its first statement.
PollStart ==
    [pc |-> "receive", messages |-> <<>>, index |-> 1, record |-> 1,
     processed_count |-> 0, returned |-> NoReturn,
     status_code |-> 0, detail |-> "", dispatchFailed |-> {}]

\* A handler that swallows a failed dispatch and goes on to delete the message.
RaiseHttp_Swallow(p, e) ==
    IF e = "dispatch failed" THEN [p EXCEPT !.pc = "delete"]
    ELSE [p EXCEPT !.pc = "raised", !.status_code = 500, !.detail = e]

\* except Exception as e: raise (inner), then
\* except Exception as e: raise HTTPException(status_code=500, detail=str(e))
RaiseHttp(p, e) == [p EXCEPT !.pc = "raised", !.status_code = 500, !.detail = e]

\* return {"messages_processed": ..., "total_messages": len(messages), "messages": messages}
Return(p) ==
    [p EXCEPT !.pc = "returned",
              !.returned = [messages_processed |-> p.processed_count,
                            total_messages |-> Len(p.messages),
                            messages |-> p.messages]]

\* The for loop over messages: the next message, or the return after the last.
NextMessage(p) ==
    IF p.index >= Len(p.messages) THEN Return([p EXCEPT !.index = @ + 1])
    ELSE [p EXCEPT !.pc = "message", !.index = @ + 1, !.record = 1]

\* A delete that leaves the message in the queue.
DeleteFromQueue_Keep(q, message) == q

\* sqs.delete_message(QueueUrl=..., ReceiptHandle=...) on success.
DeleteFromQueue(q, message) == q \ {message}

\* sqs.receive_message(...); messages = response.get('Messages', [])
ReceiveMessages ==
    /\ poll.pc = "receive"
    /\ \/ \E b \in Batches(queue) :
            poll' = IF b = <<>> THEN Return([poll EXCEPT !.messages = b])
                    ELSE [poll EXCEPT !.pc = "message", !.messages = b]
       \/ poll' = RaiseHttp(poll, "receive failed")
    /\ UNCHANGED <<queue, dispatched>>
    /\ UNCHANGED <<harnessVars, runVars>>

\* A handler that deletes the message without looking at its Records.
ParseBody_SkipDispatch ==
    /\ poll.pc = "message"
    /\ poll' = [poll EXCEPT !.pc = "delete"]
    /\ UNCHANGED <<queue, dispatched>>
    /\ UNCHANGED <<harnessVars, runVars>>

\* message_body = json.loads(message['Body']); if 'Records' in message_body
ParseBody ==
    /\ poll.pc = "message"
    /\ LET body == poll.messages[poll.index].Body
       IN  poll' = IF ~body.json THEN RaiseHttp(poll, "invalid JSON")
                   ELSE IF body.hasRecords THEN [poll EXCEPT !.pc = "records", !.record = 1]
                   ELSE [poll EXCEPT !.pc = "delete"]
    /\ UNCHANGED <<queue, dispatched>>
    /\ UNCHANGED <<harnessVars, runVars>>

\* An entry test that takes every entry for a storage event.
IsStorageEvent_Any(entry) == TRUE

\* if record.get('eventSource') == 'aws:s3'
IsStorageEvent(entry) == entry.eventSource = "aws:s3"

\* A dispatch that enqueues nothing.
Delay_Drop(tasks, entry, message) == tasks

\* process_uploaded_file.delay(bucket_name, object_key) on success: the task is
\* enqueued with the entry's bucket and key.
Delay(tasks, entry, message) ==
    Append(tasks, [bucket |-> entry.bucket, key |-> entry.key,
                   message |-> message.ReceiptHandle])

\* One iteration of the loop over message_body['Records']:
\* process_uploaded_file.delay(bucket_name, object_key) for an aws:s3 entry,
\* which enqueues the task or raises.
DispatchRecord ==
    /\ poll.pc = "records"
    /\ LET message == poll.messages[poll.index]
           records == message.Body.Records
       IN  IF poll.record > Len(records)
           THEN poll' = [poll EXCEPT !.pc = "delete"] /\ UNCHANGED dispatched
           ELSE LET entry == records[poll.record]
                IN  IF ~IsStorageEvent(entry)
                    THEN poll' = [poll EXCEPT !.record = @ + 1] /\ UNCHANGED dispatched
                    ELSE IF ~entry.s3
                    THEN poll' = RaiseHttp(poll, "KeyError") /\ UNCHANGED dispatched
                    ELSE \/ /\ dispatched' = Delay(dispatched, entry, message)
                            /\ poll' = [poll EXCEPT !.record = @ + 1,
                                                    !.processed_count = @ + 1]
                         \/ /\ poll' = RaiseHttp(
                                   [poll EXCEPT !.dispatchFailed = @ \cup {message}],
                                   "dispatch failed")
                            /\ UNCHANGED dispatched
    /\ UNCHANGED queue
    /\ UNCHANGED <<harnessVars, runVars>>

\* sqs.delete_message(...) after the message's entries were handled; when the
\* call raises, the source may or may not have deleted the message.
DeleteMessage ==
    /\ poll.pc = "delete"
    /\ \/ /\ queue' = DeleteFromQueue(queue, poll.messages[poll.index])
          /\ poll' = NextMessage(poll)
       \/ /\ poll' = RaiseHttp(poll, "delete failed")
          /\ \/ UNCHANGED queue
             \/ queue' = DeleteFromQueue(queue, poll.messages[poll.index])
    /\ UNCHANGED dispatched
    /\ UNCHANGED <<harnessVars, runVars>>

PollIdle ==
    /\ queue = {}
    /\ poll = [PollStart EXCEPT !.pc = "off"]
    /\ dispatched = <<>>

\* A queue of up to MaxQueue messages with distinct receipt handles.
PollInit ==
    /\ queue \in {q \in SUBSET Messages :
                     \A m \in q, n \in q : m.ReceiptHandle = n.ReceiptHandle => m = n}
    /\ poll = PollStart
    /\ dispatched = <<>>

\* ---- the callers of poll_sqs_messages

\* The callers of the model: each is a poll_sqs_task started by a
\* presigned-upload request, or a request to the poll endpoint.
Pollers == {1, 2}

\* Largest expiration_seconds of a presigned-upload request.
MaxExpiration == 12

\* WaitTimeSeconds of the receive call: the longest one poll blocks.
WaitTimeSeconds == 20

\* range(expiration_seconds // 5)
IterationSeconds == 5

\* await asyncio.sleep(5)
SleepSeconds == 5

\* A range that includes its upper end.
Iterations_OneMore(expiration_seconds) == expiration_seconds \div IterationSeconds + 1

\* for _ in range(expiration_seconds // 5)
Iterations(expiration_seconds) == expiration_seconds \div IterationSeconds

PollerOff ==
    [kind |-> "none", pc |-> "off", awaited |-> FALSE, expiration_seconds |-> 0,
     iteration |-> 0, elapsed |-> 0, issuedAt |-> 0, polls |-> 0]

\* create_presigned_upload_url: poll_sqs_task.delay(request.expiration_seconds).
\* poll_sqs_task is a coroutine function registered as a task: the worker
\* either drives the coroutine or calls it and drops the coroutine object.
CreatePresignedUploadUrl(c) ==
    /\ pollers[c].pc = "off"
    /\ \E e \in 0..MaxExpiration, a \in BOOLEAN :
          pollers' = [pollers EXCEPT ![c] =
                         [PollerOff EXCEPT !.kind = "task", !.pc = "loop", !.awaited = a,
                                           !.expiration_seconds = e]]
    /\ UNCHANGED <<cValue, cImpl, cResult, kColumns, kEmpty, kResult>>
    /\ UNCHANGED <<runVars, pollVars, columnarVars>>

\* GET /import-data/apple/poll_sqs: return await poll_sqs_messages()
PollSqs(c) ==
    /\ pollers[c].pc = "off"
    /\ pollers' = [pollers EXCEPT ![c] =
                      [PollerOff EXCEPT !.kind = "endpoint", !.pc = "polling", !.polls = 1]]
    /\ UNCHANGED <<cValue, cImpl, cResult, kColumns, kEmpty, kResult>>
    /\ UNCHANGED <<runVars, pollVars, columnarVars>>

\* The head of the for loop of poll_sqs_task: the next poll_sqs_messages call
\* is issued, or the range is exhausted and the task ends.
TaskLoop(c) ==
    /\ pollers[c].pc = "loop"
    /\ LET p == pollers[c]
       IN  pollers' = [pollers EXCEPT ![c] =
             IF p.awaited /\ p.iteration < Iterations(p.expiration_seconds)
             THEN [p EXCEPT !.pc = "polling", !.issuedAt = p.elapsed, !.polls = @ + 1]
             ELSE [p EXCEPT !.pc = "done"]]
    /\ UNCHANGED <<cValue, cImpl, cResult, kColumns, kEmpty, kResult>>
    /\ UNCHANGED <<runVars, pollVars, columnarVars>>

\* poll_sqs_messages comes back to its caller: the receive returned at once or
\* after the long-poll wait, and the call returns or raises HTTPException
\* (which poll_sqs_task does not catch). What one poll does to the queue is
\* the subject of SpecPoll.
PollEnds(c) ==
    /\ pollers[c].pc = "polling"
    /\ \E w \in {0, WaitTimeSeconds}, ok \in BOOLEAN :
          pollers' = [pollers EXCEPT ![c] =
                         [@ EXCEPT !.elapsed = @ + w,
                                   !.pc = IF ~ok THEN "raised"
                                          ELSE IF pollers[c].kind = "task" THEN "sleeping"
                                          ELSE "done"]]
    /\ UNCHANGED <<cValue, cImpl, cResult, kColumns, kEmpty, kResult>>
    /\ UNCHANGED <<runVars, pollVars, columnarVars>>

\* await asyncio.sleep(5), then the next iteration
TaskSleep(c) ==
    /\ pollers[c].pc = "sleeping"
    /\ pollers' = [pollers EXCEPT ![c] =
                      [@ EXCEPT !.elapsed = @ + SleepSeconds, !.iteration = @ + 1,
                                !.pc = "loop"]]
    /\ UNCHANGED <<cValue, cImpl, cResult, kColumns, kEmpty, kResult>>
    /\ UNCHANGED <<runVars, pollVars, columnarVars>>

PollerStep(c) ==
    \/ CreatePresignedUploadUrl(c)
    \/ PollSqs(c)
    \/ TaskLoop(c)
    \/ PollEnds(c)
    \/ TaskSleep(c)

PollersIdle == pollers = [c \in Pollers |-> PollerOff]

\* ---- the columnar-export task (process_uploaded_file of tasks.py)

\* The names random.choices may give the database file: two, so that two
\* tasks may draw the same one.
DbNames == {"n1", "n2"}

\* filename.replace('.xml', '.duckdb')
ReplaceXmlDuckdb(filename) ==
    [i \in 1..Len(filename) |-> IF filename[i] = ".xml" THEN ".duckdb" ELSE filename[i]]

\* uid + '/processed/' + filename.replace('.xml', '.duckdb')
FullName(object_key) ==
    <<FirstSegment(object_key), <<"processed">>, ReplaceXmlDuckdb(LastSegment(object_key))>>

NoColumnarResult == [key |-> None, new_filename |-> None, status |-> "none"]

ColumnarStart(key) ==
    [pc |-> "start", object_key |-> key, db_file |-> "", exported |-> FALSE,
     uploaded |-> FALSE, result |-> NoColumnarResult, outcome |-> "running", failed |-> {}]

ColumnarOff == [ColumnarStart(KeyA1) EXCEPT !.pc = "off"]

\* An exception that no handler of the task catches: the task ends by raising.
ColumnarRaise(rec, step) ==
    [rec EXCEPT !.pc = "done", !.outcome = "raised", !.failed = @ \cup {step}]

\* s3_client.get_object(...); response['Body']; ParquetImporter()
GetObject(d) ==
    /\ columnar[d].pc = "start"
    /\ \/ columnar' = [columnar EXCEPT ![d].pc = "export"]
       \/ columnar' = [columnar EXCEPT ![d] = ColumnarRaise(@, "get_object")]
    /\ UNCHANGED dbfiles
    /\ UNCHANGED <<cValue, cImpl, cResult, kColumns, kEmpty, kResult, pollers>>
    /\ UNCHANGED <<runVars, pollVars>>

\* The try block: db_file gets a random name and importer.export_xml() writes
\* the database file, or raises having created the file or not.
ExportXml(d) ==
    /\ columnar[d].pc = "export"
    /\ \E name \in DbNames :
          \/ /\ columnar' = [columnar EXCEPT ![d] =
                                [@ EXCEPT !.db_file = name, !.exported = TRUE, !.pc = "upload"]]
             /\ dbfiles' = dbfiles \cup {name}
          \/ /\ columnar' = [columnar EXCEPT ![d] =
                                [@ EXCEPT !.db_file = name, !.pc = "except",
                                          !.failed = @ \cup {"export"}]]
             /\ \/ dbfiles' = dbfiles \cup {name}
                \/ UNCHANGED dbfiles
    /\ UNCHANGED <<cValue, cImpl, cResult, kColumns, kEmpty, kResult, pollers>>
    /\ UNCHANGED <<runVars, pollVars>>

\* except: os.remove(db_file), which raises FileNotFoundError when the file
\* is not there; otherwise the task goes on after the try statement.
ExceptRemove(d) ==
    /\ columnar[d].pc = "except"
    /\ IF columnar[d].db_file \in dbfiles
       THEN /\ dbfiles' = dbfiles \ {columnar[d].db_file}
            /\ columnar' = [columnar EXCEPT ![d].pc = "upload"]
       ELSE /\ columnar' = [columnar EXCEPT ![d] = ColumnarRaise(@, "remove")]
            /\ UNCHANGED dbfiles
    /\ UNCHANGED <<cValue, cImpl, cResult, kColumns, kEmpty, kResult, pollers>>
    /\ UNCHANGED <<runVars, pollVars>>

\* s3_client.upload_file(db_file, bucket_name, full_name): raises when the
\* file is not there or the storage call fails.
UploadFile(d) ==
    /\ columnar[d].pc = "upload"
    /\ \/ /\ columnar[d].db_file \in dbfiles
          /\ columnar' = [columnar EXCEPT ![d] = [@ EXCEPT !.uploaded = TRUE, !.pc = "remove"]]
       \/ columnar' = [columnar EXCEPT ![d] = ColumnarRaise(@, "upload")]
    /\ UNCHANGED dbfiles
    /\ UNCHANGED <<cValue, cImpl, cResult, kColumns, kEmpty, kResult, pollers>>
    /\ UNCHANGED <<runVars, pollVars>>

\* os.remove(db_file); result = {...}; return result
RemoveDbFile(d) ==
    /\ columnar[d].pc = "remove"
    /\ IF columnar[d].db_file \in dbfiles
       THEN /\ dbfiles' = dbfiles \ {columnar[d].db_file}
            /\ columnar' = [columnar EXCEPT ![d] =
                  [@ EXCEPT !.pc = "done", !.outcome = "returned",
                            !.result = [key |-> columnar[d].object_key,
                                        new_filename |-> FullName(columnar[d].object_key),
                                        status |-> "processed"]]]
       ELSE /\ columnar' = [columnar EXCEPT ![d] = ColumnarRaise(@, "remove")]
            /\ UNCHANGED dbfiles
    /\ UNCHANGED <<cValue, cImpl, cResult, kColumns, kEmpty, kResult, pollers>>
    /\ UNCHANGED <<runVars, pollVars>>

ColumnarStep(d) ==
    \/ GetObject(d)
    \/ ExportXml(d)
    \/ ExceptRemove(d)
    \/ UploadFile(d)
    \/ RemoveDbFile(d)

ColumnarIdle ==
    /\ columnar = [d \in Runs |-> ColumnarOff]
    /\ dbfiles = {}

\* Two worker tasks dispatched by the consumer, for the same entry or for two.
ColumnarInit ==
    /\ \E k \in {KeyA1, KeyB1} :
          columnar = [d \in Runs |-> IF d = 1 THEN ColumnarStart(KeyA1) ELSE ColumnarStart(k)]
    /\ dbfiles = {}

\* ---------------------------------------------------------- specifications

\* Two concurrent orchestration runs.
Init == RunInit /\ CoerceIdle /\ ClassifyIdle /\ PollIdle /\ PollersIdle /\ ColumnarIdle
Next == \E r \in Runs : RunStep(r)
Spec == Init /\ [][Next]_vars

\* One orchestration run on every file within the bounds.
InitImport == ImportInit /\ CoerceIdle /\ ClassifyIdle /\ PollIdle /\ PollersIdle /\ ColumnarIdle
SpecImport == InitImport /\ [][Next]_vars

\* _safe_decimal on every scalar within the bounds.
InitCoerce == CoerceInit /\ ClassifyIdle /\ RunIdle /\ PollIdle /\ PollersIdle /\ ColumnarIdle
NextCoerce == CoerceCall /\ UNCHANGED <<classifyVars, runVars, pollVars, pollers, columnarVars>>
SpecCoerce == InitCoerce /\ [][NextCoerce]_vars

\* Both classifications on every column set.
InitClassify == ClassifyInit /\ CoerceIdle /\ RunIdle /\ PollIdle /\ PollersIdle /\ ColumnarIdle
NextClassify == ClassifyCall /\ UNCHANGED <<coerceVars, runVars, pollVars, pollers, columnarVars>>
SpecClassify == InitClassify /\ [][NextClassify]_vars

\* One poll_sqs_messages call on every queue within the bounds.
InitPoll == PollInit /\ CoerceIdle /\ ClassifyIdle /\ RunIdle /\ PollersIdle /\ ColumnarIdle
NextPoll == ReceiveMessages \/ ParseBody \/ DispatchRecord \/ DeleteMessage
SpecPoll == InitPoll /\ [][NextPoll]_vars

\* One orchestration run under every key and user_id argument, and its retry
\* after a failed dump or upload.
InitRetry == RetryInit /\ CoerceIdle /\ ClassifyIdle /\ PollIdle /\ PollersIdle /\ ColumnarIdle
NextRetry == (\E r \in Runs : RunStep(r)) \/ (\E r \in Runs, q \in Runs : Retry(r, q))
SpecRetry == InitRetry /\ [][NextRetry]_vars

\* The callers of poll_sqs_messages: requests that each start a poll_sqs_task,
\* and requests to the poll endpoint.
InitPollers == PollersIdle /\ CoerceIdle /\ ClassifyIdle /\ RunIdle /\ PollIdle /\ ColumnarIdle
NextPollers == \E c \in Pollers : PollerStep(c)
SpecPollers == InitPollers /\ [][NextPollers]_vars

\* Two concurrent columnar-export tasks.
InitColumnar ==
    ColumnarInit /\ CoerceIdle /\ ClassifyIdle /\ RunIdle /\ PollIdle /\ PollersIdle
NextColumnar == \E d \in Runs : ColumnarStep(d)
SpecColumnar == InitColumnar /\ [][NextColumnar]_vars

\* The same, each started task and each poll in flight being carried on: the
\* worker runs a task it has started, and a poll comes back after its bounded
\* wait.
InitPollersLive == InitPollers
SpecPollersLive ==
    /\ InitPollersLive
    /\ [][NextPollers]_vars
    /\ \A c \in Pollers : WF_vars(TaskLoop(c) \/ PollEnds(c) \/ TaskSleep(c))

\* ------------------------------------------------------------------ claims

Ended(r) == run[r].pc = "done"

\* The entities of run r that are visible in the store.
Visible(r) == SelectSeq(store, LAMBDA e : e.run = r)

AllSteps == {"download", "commit", "dump", "upload"}

C3_NeverRaises == \A r \in Runs : run[r].outcome # "raised"

\* C4: once the runs have ended, no temporary download file and no temporary
\* dump file is left in the filesystem.
C4_TempFilesAbsent ==
    (\A r \in Runs : run[r].pc \in {"done", "off"}) =>
        \A p \in Paths : ~fs[p].present

\* C5: when Dump or Archive-Upload fails after the commit, the rows the run
\* committed stay in the store and the run's result is failed.
C5_CommitSurvivesArchiveFailure ==
    \A r \in Runs :
        "commit" \in run[r].done /\ run[r].failed \cap {"dump", "upload"} # {} =>
            /\ Visible(r) = run[r].committed
            /\ run[r].result.status = "failed"

\* A run that committed rows and then failed at the dump, and one that failed
\* at the upload, both ended.
C5_Witness ==
    \E r \in Runs, q \in Runs :
        /\ Ended(r) /\ "dump" \in run[r].failed /\ run[r].committed # <<>>
        /\ Ended(q) /\ "upload" \in run[q].failed /\ run[q].committed # <<>>

\* The priority the classification is to apply: Statistic, then Workout, then
\* Record, then Unknown.
PriorityKind(columns) ==
    IF {"sum", "average", "maximum", "minimum"} \subseteq columns THEN "statistic"
    ELSE IF {"duration", "durationUnit"} \subseteq columns THEN "workout"
    ELSE IF "value" \in columns THEN "record"
    ELSE "unknown"

\* C6: on every import path, a chunk is classified from its column set by
\* the priority Statistic, Workout, Record, Unknown.
C6_PriorityOnEveryPath ==
    kResult.tag = "classified" =>
        /\ kResult.service = PriorityKind(kColumns)
        /\ kResult.task = PriorityKind(kColumns)

\* C7: for a scalar whose string form is no decimal literal and that is not
\* the float-zero sentinel, _safe_decimal returns None and does not raise.
C7_MalformedGivesNone ==
    cResult # NotCalled /\ ~IsDecimalLiteral(cValue.str) /\ ~IsZeroFloat(cValue) =>
        cResult.tag = "none"

NonEmptyChunks(f, upto) == {i \in 1..upto : Len(f.chunks[i].rows) > 0}

\* C8: while import_xml iterates, chunks_processed counts the non-empty chunks
\* consumed so far, of whatever kind, and exactly those were classified; when
\* the loop has consumed all chunks it is the number of non-empty chunks of the
\* file. An empty chunk moves no counter.
C8_ChunksProcessed ==
    \A r \in Runs :
        LET rec == run[r]
            n == Len(rec.parsed.chunks)
        IN  rec.fn = PUXF =>
              /\ rec.pc = "chunks" =>
                    /\ rec.stats.chunks_processed =
                           Cardinality(NonEmptyChunks(rec.parsed, rec.next - 1))
                    /\ {rec.classified[i] : i \in 1..Len(rec.classified)} =
                           NonEmptyChunks(rec.parsed, rec.next - 1)
              /\ "parse" \in rec.done =>
                    rec.stats.chunks_processed = Cardinality(NonEmptyChunks(rec.parsed, n))
              /\ NonEmptyChunks(rec.parsed, n) = {} => rec.stats = NoStats

\* A completed import_xml of a file with an empty chunk and a chunk of
\* unknown kind.
C8_Witness ==
    \E r \in Runs :
        LET rec == run[r]
            cs == rec.parsed.chunks
        IN  /\ rec.fn = PUXF /\ "parse" \in rec.done
            /\ \E i \in 1..Len(cs) : Len(cs[i].rows) = 0
            /\ \E i \in 1..Len(cs) : Len(cs[i].rows) > 0 /\ ChunkKind(PUXF, cs[i]) = "unknown"
            /\ rec.stats.chunks_processed = 1

PollEnded == poll.pc \in {"returned", "raised"}

Received == {poll.messages[i] : i \in 1..Len(poll.messages)}

\* C9 (as stated): when one poll ends, every message it received has been
\* deleted from the source, whether or not dispatching its tasks succeeded.
C9_AllReceivedDeleted ==
    PollEnded /\ poll.detail \in {"", "dispatch failed"} => Received \cap queue = {}

\* C9 (amended): the messages handled before the current one have been
\* deleted; a poll that returns has deleted every message it received; a poll
\* that raises before the delete call of a message leaves that message, and
\* those after it in the batch, in the source (when the delete call itself
\* raises, only those after it).
C9_HandledMessagesDeleted ==
    /\ \A i \in 1..Len(poll.messages) : i < poll.index => poll.messages[i] \notin queue
    /\ poll.pc = "returned" => Received \cap queue = {}
    /\ poll.pc = "raised" =>
           \A i \in 1..Len(poll.messages) :
               \/ i < poll.index
               \/ i = poll.index /\ poll.detail = "delete failed"
               \/ poll.messages[i] \in queue

\* A poll that deleted its first message and stopped at a failed dispatch for
\* the second.
C9_Witness ==
    /\ poll.pc = "raised" /\ poll.detail = "dispatch failed"
    /\ poll.index = 2 /\ Len(poll.messages) = 2
    /\ poll.messages[1] \notin queue /\ poll.messages[2] \in queue

\* C10: a message for which dispatching a task failed is not deleted: it
\* stays in the source, and the poll ends by raising the error to its caller
\* (HTTPException, status 500, the error text as detail).
C10_DispatchFailureKeepsMessage ==
    \A m \in poll.dispatchFailed :
        /\ m \in queue
        /\ PollEnded => poll.pc = "raised" /\ poll.status_code = 500 /\ poll.detail # ""
        /\ poll.pc # "delete"

\* A poll that raised after the second dispatch of a message failed, the first
\* task being enqueued already.
C10_Witness ==
    /\ poll.pc = "raised" /\ poll.dispatchFailed # {}
    /\ poll.record = 2 /\ poll.processed_count = 1
    /\ poll.messages[poll.index] \in queue

\* The messages of the batch that carry no storage-event entry: a JSON body
\* without Records, or with Records that are all of another event source.
NoStorageEntry(m) ==
    /\ m.Body.json
    /\ \A i \in 1..Len(m.Body.Records) : m.Body.Records[i].eventSource # "aws:s3"

\* C11: a received message without Records, or whose Records are all of
\* another event source than aws:s3, causes no task dispatch and is deleted
\* when the loop handles it: it is gone from the source once the loop has
\* moved past it, and the poll stops at such a message only when the delete
\* call itself raises.
C11_NoRecordsDeletedWithoutDispatch ==
    \A i \in 1..Len(poll.messages) :
        LET m == poll.messages[i]
        IN  NoStorageEntry(m) =>
              /\ \A j \in 1..Len(dispatched) : dispatched[j].message # m.ReceiptHandle
              /\ i < poll.index => m \notin queue
              /\ i = poll.index /\ poll.pc = "raised" => poll.detail = "delete failed"
              /\ poll.pc = "returned" => m \notin queue

\* A poll that returned after a message without Records and one whose only
\* entry is of another source: both deleted, nothing dispatched.
C11_Witness ==
    /\ poll.pc = "returned" /\ Len(poll.messages) = 2
    /\ \E i \in 1..2 : ~poll.messages[i].Body.hasRecords
    /\ \E i \in 1..2 : poll.messages[i].Body = WithRecords(<<OtherEntry>>)
    /\ Received \cap queue = {}
    /\ dispatched = <<>>

\* The storage-event entries of a message, in order, as the tasks they call for.
TasksOf(m) ==
    LET es == SelectSeq(m.Body.Records, LAMBDA e : e.eventSource = "aws:s3")
    IN  [i \in 1..Len(es) |->
            [bucket |-> es[i].bucket, key |-> es[i].key, message |-> m.ReceiptHandle]]

RECURSIVE TasksOfBatch(_, _)
TasksOfBatch(messages, n) ==
    IF n = 0 THEN <<>> ELSE TasksOfBatch(messages, n - 1) \o TasksOf(messages[n])

IsPrefix(s, t) == Len(s) <= Len(t) /\ \A i \in 1..Len(s) : s[i] = t[i]

\* C12: in one poll, the tasks dispatched are, one for one and in order, the
\* aws:s3 entries of the received messages with their (bucket, key); the poll
\* returns the number of tasks dispatched as processed and the number of
\* messages received as total.
C12_OneTaskPerEntry ==
    /\ IsPrefix(dispatched, TasksOfBatch(poll.messages, Len(poll.messages)))
    /\ poll.pc \in {"message", "records", "delete", "returned", "raised"} =>
           poll.processed_count = Len(dispatched)
    /\ poll.pc \in {"message", "returned"} =>
           dispatched = TasksOfBatch(poll.messages, poll.index - 1)
    /\ poll.pc = "returned" =>
           /\ dispatched = TasksOfBatch(poll.messages, Len(poll.messages))
           /\ poll.returned.messages_processed = Len(dispatched)
           /\ poll.returned.total_messages = Len(poll.messages)

\* A poll that returned after a message with two storage-event entries and a
\* message with an entry of another source and one storage event: three tasks.
C12_Witness ==
    /\ poll.pc = "returned" /\ Len(poll.messages) = 2
    /\ Len(dispatched) = 3
    /\ poll.returned.messages_processed = 3 /\ poll.returned.total_messages = 2
    /\ \E i \in 1..3 : dispatched[i].key = KeyA2

\* The number of rows of a file.
RECURSIVE TotalRows(_, _)
TotalRows(f, n) == IF n = 0 THEN 0 ELSE TotalRows(f, n - 1) + Len(f.chunks[n].rows)

\* C13: when two runs for the same key have both ended, each has contributed
\* every row of the file or no row, and neither lost its import to the other:
\* no run failed to parse a well-formed file.
C13_ConcurrentRunsAllOrNothing ==
    \A r \in Runs, q \in Runs :
        /\ r # q /\ Ended(r) /\ Ended(q)
        /\ run[r].object_key = run[q].object_key
        => LET f == objects[run[r].object_key]
           IN  /\ Len(Visible(r)) \in {0, TotalRows(f, Len(f.chunks))}
               /\ "parse" \in run[r].failed => f.malformed

\* A run that holds temporary files: from its download to the end of its cleanup.
Active(r) == run[r].pc \notin {"off", "start", "done"}

\* C14: two runs that execute at the same time never have the same temporary
\* download path or the same temporary dump path, and a run parses only the
\* file it downloaded itself.
C14_TempFilesPerRun ==
    \A r \in Runs, q \in Runs :
        r # q /\ Active(r) /\ Active(q) =>
            /\ run[r].temp_xml_file # run[q].temp_xml_file
            /\ run[r].dump_file # None => run[r].dump_file # run[q].dump_file
            /\ run[r].parsedFrom \in {0, r}

\* The rows run r has written, in insertion order: those its commit made
\* visible, then those pending in its open transaction.
Inserted(r) == Visible(r) \o session[r]

\* Entity e is written before entity f in document order.
DocBefore(e, f) == e.chunk < f.chunk \/ (e.chunk = f.chunk /\ e.row < f.row)

\* Whether the rows of this chunk are written at all: a chunk of unknown kind,
\* and a record chunk import_xml finds without a type column, write nothing.
WritesRows(fn, chunk) ==
    /\ ChunkKind(fn, chunk) # "unknown"
    /\ ~(fn = PUXF /\ ChunkKind(fn, chunk) = "record" /\ "type" \notin chunk.columns)

\* C15: the rows of a file are inserted in document order, chunk after chunk
\* and row after row without a gap, and while the loop waits for the next
\* chunk every chunk before it has been written in full and no later one has
\* been touched.
C15_DocumentOrder ==
    \A r \in Runs :
        LET s == Inserted(r)
            rec == run[r]
        IN  /\ \A i \in 1..Len(s), j \in 1..Len(s) : i < j => DocBefore(s[i], s[j])
            /\ \A i \in 1..Len(s) :
                   s[i].row > 1 => i > 1 /\ s[i - 1].chunk = s[i].chunk
                                         /\ s[i - 1].row = s[i].row - 1
            /\ rec.pc = "chunks" =>
                   /\ \A i \in 1..Len(s) : s[i].chunk < rec.next
                   /\ \A c \in 1..(rec.next - 1) :
                          Cardinality({i \in 1..Len(s) : s[i].chunk = c}) =
                              IF WritesRows(rec.fn, rec.parsed.chunks[c])
                              THEN Len(rec.parsed.chunks[c].rows) ELSE 0

\* A run that committed a chunk of two rows and then a chunk of one row.
C15_Witness ==
    \E r \in Runs :
        /\ Ended(r) /\ Len(Visible(r)) = 3
        /\ Visible(r)[2].chunk = 1 /\ Visible(r)[2].row = 2
        /\ Visible(r)[3].chunk = 2 /\ Visible(r)[3].row = 1

\* C16: a poll_sqs_task issues no poll once the time elapsed since it started
\* has reached expiration_seconds.
C16_NoPollAfterBudget ==
    \A c \in Pollers :
        pollers[c].kind = "task" /\ pollers[c].pc = "polling" =>
            pollers[c].issuedAt < pollers[c].expiration_seconds

\* C20: at no time are two receive polls against the queue in flight.
C20_OnePollInFlight ==
    \A c \in Pollers, d \in Pollers :
        c # d => ~(pollers[c].pc = "polling" /\ pollers[d].pc = "polling")

\* C17: every entity a run persisted carries the user_id passed to the run
\* or, when none was passed, the first segment of its object_key, and that
\* user_id is a valid identifier: a run whose user_id is not valid persists
\* no entity.
C17_EntitiesCarryUserId ==
    \A i \in 1..Len(store) :
        LET e == store[i]
            rec == run[e.run]
        IN  /\ e.user_id = IF rec.user_arg = <<>> THEN rec.object_key[1] ELSE rec.user_arg
            /\ e.user_id = rec.user_id
            /\ ValidUUID(e.user_id)

\* A run that was passed a user_id other than the first segment of its key
\* and committed rows, and the store holding them.
C17_Witness ==
    \E r \in Runs :
        /\ Ended(r) /\ run[r].user_arg = <<"u2">> /\ run[r].object_key = KeyA1
        /\ Len(Visible(r)) > 0

\* The filename with its extension replaced by the archive extension.
ReplaceExtension(filename) == SubSeq(filename, 1, Len(filename) - 1) \o <<".sql">>

\* C18: the output_key of a successful run is user_id, then processed, then
\* the last segment of object_key with its extension replaced by the archive
\* extension; two successful runs with the same arguments return the same
\* output_key.
C18_OutputKeyDeterministic ==
    /\ \A r \in Runs :
           run[r].result.status = "success" =>
               run[r].result.output_key =
                   << run[r].user_id, <<"processed">>,
                      ReplaceExtension(run[r].object_key[Len(run[r].object_key)]) >>
    /\ \A r \in Runs, q \in Runs :
           /\ run[r].result.status = "success" /\ run[q].result.status = "success"
           /\ run[r].object_key = run[q].object_key /\ run[r].user_arg = run[q].user_arg
           => run[r].result.output_key = run[q].result.output_key

\* C19: the retry of a run whose import committed and whose dump or upload
\* failed imports nothing again: the rows in the store stay those the first
\* run committed, and the retry does nothing but the dump and the upload.
C19_RetryDoesNotReimport ==
    \A q \in Runs :
        run[q].retry_of # 0 =>
            /\ store = run[run[q].retry_of].committed
            /\ run[q].done \subseteq {"dump", "upload"}

\* The position of a step in the text of the task.
Rank(pc) ==
    CASE pc = "off" -> 0 [] pc = "start" -> 1 [] pc = "import" -> 2 [] pc = "chunks" -> 3
      [] pc = "commit" -> 4 [] pc = "dump" -> 5 [] pc = "upload" -> 6
      [] pc = "cleanup_xml" -> 7 [] pc = "remove_xml" -> 8 [] pc = "cleanup_dump" -> 9
      [] pc = "remove_dump" -> 10 [] pc = "done" -> 11

\* C21: every step of a run moves it forward in the order Acquire,
\* Parse+Persist, Dump, Archive-Upload, Cleanup, and never back: the dump is
\* reached only with the commit done and is left for good once invoked, the
\* upload is reached only with the dump done, and from the cleanup on only
\* cleanup follows.
C21_StepOrder ==
    [][\A r \in Runs :
          run'[r] # run[r] =>
              /\ Rank(run'[r].pc) >= Rank(run[r].pc)
              /\ run[r].pc # "chunks" => Rank(run'[r].pc) > Rank(run[r].pc)
              /\ run'[r].pc = "dump" => "commit" \in run'[r].done
              /\ run'[r].pc = "upload" => "dump" \in run'[r].done
              /\ "dump" \in (run'[r].done \cup run'[r].failed) => "commit" \in run'[r].done
              /\ "upload" \in (run'[r].done \cup run'[r].failed) => "dump" \in run'[r].done
              /\ Rank(run[r].pc) >= 7 =>
                     /\ run'[r].done = run[r].done
                     /\ run'[r].result = run[r].result
                     /\ store' = store /\ uploaded' = uploaded]_vars

\* A run that went through every step and ended, and a run that ended after
\* its dump failed.
C21_Witness ==
    \E r \in Runs :
        /\ Ended(r) /\ run[r].retry_of # 0
        /\ AllSteps \subseteq run[r].done
        /\ "dump" \in run[run[r].retry_of].failed

\* The rows of the chunk on which the try block of the row loop raises.
FailingRows(rec, chunk) ==
    {i \in 1..Len(chunk.rows) :
        RowRaises(rec.fn, ChunkKind(rec.fn, chunk), chunk.columns, chunk.rows[i], rec.user_id)}

\* C22: once row k of a chunk has raised in a run, the run holds no row of
\* that chunk from k on and no row of a later chunk, that chunk is the last
\* one it classified, and the import loop is over.
C22_FailFast ==
    \A r \in Runs :
        LET rec == run[r]
            c == rec.next
            s == Inserted(r)
        IN  "row" \in rec.failed =>
              /\ rec.pc # "chunks"
              /\ FailingRows(rec, rec.parsed.chunks[c]) # {}
              /\ \A i \in 1..Len(s) :
                     /\ s[i].chunk <= c
                     /\ s[i].chunk = c =>
                            \A k \in FailingRows(rec, rec.parsed.chunks[c]) : s[i].row < k
              /\ rec.classified # <<>> /\ rec.classified[Len(rec.classified)] = c
              /\ \A i \in 1..Len(rec.classified) : rec.classified[i] <= c

\* A run whose second row of the first of two chunks raised: one row written,
\* the second chunk untouched.
C22_Witness ==
    \E r \in Runs :
        /\ Ended(r) /\ "row" \in run[r].failed
        /\ Len(run[r].parsed.chunks) = 2 /\ run[r].next = 1
        /\ Len(run[r].parsed.chunks[2].rows) > 0
        /\ Len(Visible(r)) = 1

\* The rows written for the chunks 1..n that import_xml classifies as kind.
RECURSIVE RowsOfKind(_, _, _)
RowsOfKind(f, kind, n) ==
    IF n = 0 THEN 0
    ELSE RowsOfKind(f, kind, n - 1) +
         (IF /\ Len(f.chunks[n].rows) > 0
             /\ ChunkKind(PUXF, f.chunks[n]) = kind
             /\ WritesRows(PUXF, f.chunks[n])
          THEN Len(f.chunks[n].rows) ELSE 0)

\* C23: in import_xml, each non-empty chunk the loop has handled was
\* classified once, its rows were written as entities of its kind only and
\* added to the counter of its kind only; a chunk of unknown kind wrote no
\* entity and moved none of records, workouts, statistics.
C23_OneKindPerChunk ==
    \A r \in Runs :
        LET rec == run[r]
            f == rec.parsed
            n == rec.next - 1
            s == Inserted(r)
        IN  rec.fn = PUXF =>
              /\ \A i \in 1..Len(rec.classified), j \in 1..Len(rec.classified) :
                     i # j => rec.classified[i] # rec.classified[j]
              /\ \A i \in 1..Len(rec.classified) : Len(f.chunks[rec.classified[i]].rows) > 0
              /\ rec.stats.records = RowsOfKind(f, "record", n)
              /\ rec.stats.workouts = RowsOfKind(f, "workout", n)
              /\ rec.stats.statistics = RowsOfKind(f, "statistic", n)
              /\ \A i \in 1..Len(s) :
                     /\ s[i].kind = ChunkKind(PUXF, f.chunks[s[i].chunk])
                     /\ s[i].kind # "unknown"
              /\ rec.pc = "chunks" =>
                     rec.stats.records + rec.stats.workouts + rec.stats.statistics = Len(s)

\* A completed import of a workout chunk of two rows and a statistic chunk of
\* one row.
C23_Witness ==
    \E r \in Runs :
        /\ run[r].fn = PUXF /\ "parse" \in run[r].done
        /\ run[r].stats = [records |-> 0, workouts |-> 2, statistics |-> 1,
                           chunks_processed |-> 2]
        /\ Len(Inserted(r)) = 3

\* C24: a columnar-export task that has ended has returned its result, and
\* once the tasks have ended no database file is left.
C24_ColumnarFileAbsent ==
    /\ \A d \in Runs : columnar[d].pc = "done" => columnar[d].outcome = "returned"
    /\ (\A d \in Runs : columnar[d].pc \in {"done", "off"}) => dbfiles = {}

\* The tasks dispatched for message m, in order.
DispatchedFor(m) == SelectSeq(dispatched, LAMBDA t : t.message = m.ReceiptHandle)

\* C25: a message the poll received and that is no longer in the source had
\* its body parsed and one task dispatched for each of its aws:s3 entries; a
\* message at which parsing or dispatch raised is still in the source.
C25_NoEntryLost ==
    /\ \A m \in Received :
           m \notin queue => m.Body.json /\ DispatchedFor(m) = TasksOf(m)
    /\ poll.pc = "raised" /\ poll.detail \in {"invalid JSON", "KeyError", "dispatch failed"} =>
           poll.messages[poll.index] \in queue

\* A poll that deleted a message after dispatching its two entries and then
\* raised at a message whose body is no JSON.
C25_Witness ==
    /\ poll.pc = "raised" /\ poll.detail = "invalid JSON" /\ poll.index = 2
    /\ poll.messages[1] \notin queue /\ Len(DispatchedFor(poll.messages[1])) = 2
    /\ poll.messages[2] \in queue

\* C26: a poll_sqs_task that was started ends; it never performs more than
\* expiration_seconds // 5 polls, and once a poll has raised it does nothing
\* more.
C26_TaskTerminates ==
    /\ [](\A c \in Pollers :
             pollers[c].kind = "task" => pollers[c].polls <= pollers[c].expiration_seconds \div 5)
    /\ [][\A c \in Pollers : pollers[c].pc = "raised" => pollers'[c] = pollers[c]]_vars
    /\ \A c \in Pollers :
           (pollers[c].kind = "task") ~> (pollers[c].pc \in {"done", "raised"})

\* A task with a budget of 12 seconds that ended after two polls, and a task
\* with a budget below 5 that ended without a poll.
C26_Witness ==
    \E c \in Pollers, d \in Pollers :
        /\ pollers[c].kind = "task" /\ pollers[c].pc = "done" /\ pollers[c].awaited
        /\ pollers[c].expiration_seconds = 12 /\ pollers[c].polls = 2
        /\ pollers[d].kind = "task" /\ pollers[d].pc = "done" /\ pollers[d].awaited
        /\ pollers[d].expiration_seconds = 4 /\ pollers[d].polls = 0

====
